---- MODULE Spec2Model ----
(***************************************************************************)
(* Storage layer of monotree (src/database.rs): the staging cache MemCache *)
(* and the four Database adapters MemoryDB, RocksDB, Sled and Postgres.    *)
(*                                                                         *)
(* A run drives one adapter instance, chosen at construction, through the  *)
(* Database trait: each action is one call of the trait.  The handlers are *)
(* operators from the adapter's fields to its new fields and the call's    *)
(* result, so a property of a call sequence is stated over every reachable *)
(* state as the result of the handlers applied to it in that order.        *)
(* SpecFaulty makes the same calls over engines that can fail,             *)
(* SpecLockstep makes them on the three batching adapters side by side,    *)
(* and SpecThreads lets the calls of one thread come between the two       *)
(* steps of another thread's RocksDB put.                                  *)
(*                                                                         *)
(* The engines (HashMap, rocksdb::DB, sled::Db, the SQL table) are point   *)
(* key/value stores: a function from keys to a value or None.  An engine   *)
(* call either takes effect or, when the engine is faulty, fails without   *)
(* effect; the grouped writes (WriteBatch, sled::Batch, one multi-row      *)
(* upsert statement) are all-or-nothing.  Keys are 32-byte hashes and      *)
(* values non-empty byte strings; both are abstract identifiers here.      *)
(***************************************************************************)
EXTENDS Integers, Sequences, FiniteSets, TLC

\* ---- bounds ----
MaxKey == 2
MaxValue == 2
\* records a reachable WriteBatch holds (the HashMap batches are bounded by
\* the keys)
MaxBatch == 1

Keys == 1..MaxKey
Values == 1..MaxValue

\* Option::None of a value
None == 0
\* key without an entry in a sled::Batch
NoWrite == -1

EmptyMap == [k \in Keys |-> None]

\* Result<..> of a call: s the adapter afterwards, ok = Ok(..), val the Option
R(s, ok, val) == [s |-> s, ok |-> ok, val |-> val]

\* ---- MemCache ----
MemCache_new == [set |-> {}, map |-> EmptyMap]

MemCache_clear_keepset(c) == [set |-> c.set, map |-> EmptyMap]

MemCache_clear(c) == [set |-> {}, map |-> EmptyMap]

MemCache_contains(c, key) == key \in c.set \/ c.map[key] # None

MemCache_get(c, key) == c.map[key]

\* the tombstone of key left in place
MemCache_put_keeptomb(c, key, value) ==
    [set |-> c.set, map |-> [c.map EXCEPT ![key] = value]]

MemCache_put(c, key, value) ==
    [set |-> IF key \in c.set THEN c.set \ {key} ELSE c.set,
     map |-> [c.map EXCEPT ![key] = value]]

MemCache_delete_notomb(c, key) ==
    [set |-> c.set, map |-> [c.map EXCEPT ![key] = None]]

MemCache_delete(c, key) ==
    [set |-> c.set \cup {key}, map |-> [c.map EXCEPT ![key] = None]]

\* ---- MemoryDB ----
MemoryDB_new == [db |-> EmptyMap]

MemoryDB_get(s, key) == R(s, TRUE, s.db[key])

MemoryDB_put(s, key, value) == R([db |-> [s.db EXCEPT ![key] = value]], TRUE, None)

MemoryDB_delete(s, key) == R([db |-> [s.db EXCEPT ![key] = None]], TRUE, None)

MemoryDB_init_batch(s) == R(s, TRUE, None)

MemoryDB_finish_batch(s) == R(s, TRUE, None)

\* ---- RocksDB ----
\* rocksdb::WriteBatch: the ordered log of put and delete records
WbPut(key, value) == [key |-> key, value |-> value]
WbDelete(key) == [key |-> key, value |-> None]

\* DB::write(batch): the records applied in order
RECURSIVE WriteBatch_apply(_, _)
WriteBatch_apply(db, batch) ==
    IF batch = <<>> THEN db
    ELSE WriteBatch_apply([db EXCEPT ![Head(batch).key] = Head(batch).value],
                          Tail(batch))

RocksDB_new ==
    [db |-> EmptyMap, batch |-> <<>>, cache |-> MemCache_new, batch_on |-> FALSE]

RocksDB_get(s, key, fail) ==
    IF MemCache_contains(s.cache, key)
    THEN R(s, TRUE, MemCache_get(s.cache, key))
    ELSE IF fail THEN R(s, FALSE, None)
    ELSE IF s.db[key] # None
         THEN R([s EXCEPT !.cache = MemCache_put(s.cache, key, s.db[key])],
                TRUE, s.db[key])
         ELSE R(s, TRUE, None)

RocksDB_put_nocache(s, key, value, fail) ==
    IF s.batch_on
    THEN R([s EXCEPT !.batch = Append(s.batch, WbPut(key, value))], TRUE, None)
    ELSE LET c == [s EXCEPT !.cache = MemCache_put(s.cache, key, value)]
         IN IF fail THEN R(c, FALSE, None)
            ELSE R([c EXCEPT !.db = [s.db EXCEPT ![key] = value]], TRUE, None)

\* the cache recorded only after the write has gone through
RocksDB_put_write_first(s, key, value, fail) ==
    LET c == [s EXCEPT !.cache = MemCache_put(s.cache, key, value)]
    IN IF s.batch_on
       THEN R([c EXCEPT !.batch = Append(s.batch, WbPut(key, value))], TRUE, None)
       ELSE IF fail THEN R(s, FALSE, None)
       ELSE R([c EXCEPT !.db = [s.db EXCEPT ![key] = value]], TRUE, None)

RocksDB_put(s, key, value, fail) ==
    LET c == [s EXCEPT !.cache = MemCache_put(s.cache, key, value)]
    IN IF s.batch_on
       THEN R([c EXCEPT !.batch = Append(s.batch, WbPut(key, value))], TRUE, None)
       ELSE IF fail THEN R(c, FALSE, None)
       ELSE R([c EXCEPT !.db = [s.db EXCEPT ![key] = value]], TRUE, None)

\* put as the two steps another thread can come between: the cache record
\* (line 149), then the test of batch_on with the buffer or engine write
RocksDB_put_cache_step(s, key, value) ==
    [s EXCEPT !.cache = MemCache_put(s.cache, key, value)]

\* the cache recorded once more after the write
RocksDB_put_write_step_recache(s, key, value, fail) ==
    LET c == [s EXCEPT !.cache = MemCache_put(s.cache, key, value)]
    IN IF s.batch_on
       THEN R([c EXCEPT !.batch = Append(s.batch, WbPut(key, value))], TRUE, None)
       ELSE IF fail THEN R(s, FALSE, None)
       ELSE R([c EXCEPT !.db = [s.db EXCEPT ![key] = value]], TRUE, None)

RocksDB_put_write_step(s, key, value, fail) ==
    IF s.batch_on
    THEN R([s EXCEPT !.batch = Append(s.batch, WbPut(key, value))], TRUE, None)
    ELSE IF fail THEN R(s, FALSE, None)
    ELSE R([s EXCEPT !.db = [s.db EXCEPT ![key] = value]], TRUE, None)

RocksDB_delete(s, key, fail) ==
    LET c == [s EXCEPT !.cache = MemCache_delete(s.cache, key)]
    IN IF s.batch_on
       THEN R([c EXCEPT !.batch = Append(s.batch, WbDelete(key))], TRUE, None)
       ELSE IF fail THEN R(c, FALSE, None)
       ELSE R([c EXCEPT !.db = [s.db EXCEPT ![key] = None]], TRUE, None)

RocksDB_init_batch(s) ==
    R([s EXCEPT !.batch = <<>>,
                !.cache = MemCache_clear(s.cache),
                !.batch_on = TRUE], TRUE, None)

RocksDB_finish_batch_flag_in_if(s, fail) ==
    IF s.batch # <<>>
    THEN LET t == [s EXCEPT !.batch = <<>>, !.batch_on = FALSE]
         IN IF fail THEN R(t, FALSE, None)
            ELSE R([t EXCEPT !.db = WriteBatch_apply(s.db, s.batch)], TRUE, None)
    ELSE R(s, TRUE, None)

\* the batch taken only once the write has gone through
RocksDB_finish_batch_take_after_write(s, fail) ==
    LET off == [s EXCEPT !.batch_on = FALSE]
    IN IF s.batch # <<>>
       THEN IF fail THEN R(off, FALSE, None)
            ELSE R([off EXCEPT !.batch = <<>>,
                               !.db = WriteBatch_apply(s.db, s.batch)], TRUE, None)
       ELSE R(off, TRUE, None)

RocksDB_finish_batch(s, fail) ==
    LET off == [s EXCEPT !.batch_on = FALSE]
    IN IF s.batch # <<>>
       THEN LET t == [off EXCEPT !.batch = <<>>]
            IN IF fail THEN R(t, FALSE, None)
               ELSE R([t EXCEPT !.db = WriteBatch_apply(s.db, s.batch)], TRUE, None)
       ELSE R(off, TRUE, None)

\* ---- Sled ----
\* sled::Batch: a map from key to Some(value) for insert, None for remove
SledBatch_default == [k \in Keys |-> NoWrite]

\* Db::apply_batch(batch)
SledBatch_apply(db, batch) ==
    [k \in Keys |-> IF batch[k] = NoWrite THEN db[k] ELSE batch[k]]

Sled_new ==
    [db |-> EmptyMap, batch |-> SledBatch_default, cache |-> MemCache_new,
     batch_on |-> FALSE]

\* the absence of a key recorded through the adapter's own delete
Sled_get_negcache(s, key, fail) ==
    IF MemCache_contains(s.cache, key)
    THEN R(s, TRUE, MemCache_get(s.cache, key))
    ELSE IF fail THEN R(s, FALSE, None)
    ELSE IF s.db[key] # None
         THEN R([s EXCEPT !.cache = MemCache_put(s.cache, key, s.db[key])],
                TRUE, s.db[key])
         ELSE R([s EXCEPT !.cache = MemCache_delete(s.cache, key),
                          !.batch = IF s.batch_on
                                    THEN [s.batch EXCEPT ![key] = None]
                                    ELSE s.batch], TRUE, None)

Sled_get(s, key, fail) ==
    IF MemCache_contains(s.cache, key)
    THEN R(s, TRUE, MemCache_get(s.cache, key))
    ELSE IF fail THEN R(s, FALSE, None)
    ELSE IF s.db[key] # None
         THEN R([s EXCEPT !.cache = MemCache_put(s.cache, key, s.db[key])],
                TRUE, s.db[key])
         ELSE R(s, TRUE, None)

Sled_put_writethrough(s, key, value, fail) ==
    LET c == [s EXCEPT !.cache = MemCache_put(s.cache, key, value)]
    IN IF fail THEN R(c, FALSE, None)
       ELSE R([c EXCEPT !.db = [s.db EXCEPT ![key] = value]], TRUE, None)

Sled_put(s, key, value, fail) ==
    LET c == [s EXCEPT !.cache = MemCache_put(s.cache, key, value)]
    IN IF s.batch_on
       THEN R([c EXCEPT !.batch = [s.batch EXCEPT ![key] = value]], TRUE, None)
       ELSE IF fail THEN R(c, FALSE, None)
       ELSE R([c EXCEPT !.db = [s.db EXCEPT ![key] = value]], TRUE, None)

\* the remove recorded in the batch also when no batch is open
Sled_delete_alwaysbuffer(s, key, fail) ==
    LET c == [s EXCEPT !.cache = MemCache_delete(s.cache, key),
                       !.batch = [s.batch EXCEPT ![key] = None]]
    IN IF s.batch_on
       THEN R(c, TRUE, None)
       ELSE IF fail THEN R(c, FALSE, None)
       ELSE R([c EXCEPT !.db = [s.db EXCEPT ![key] = None]], TRUE, None)

Sled_delete(s, key, fail) ==
    LET c == [s EXCEPT !.cache = MemCache_delete(s.cache, key)]
    IN IF s.batch_on
       THEN R([c EXCEPT !.batch = [s.batch EXCEPT ![key] = None]], TRUE, None)
       ELSE IF fail THEN R(c, FALSE, None)
       ELSE R([c EXCEPT !.db = [s.db EXCEPT ![key] = None]], TRUE, None)

Sled_init_batch(s) ==
    R([s EXCEPT !.batch = SledBatch_default,
                !.cache = MemCache_clear(s.cache),
                !.batch_on = TRUE], TRUE, None)

Sled_finish_batch_notake(s, fail) ==
    LET t == [s EXCEPT !.batch_on = FALSE]
    IN IF fail THEN R(t, FALSE, None)
       ELSE R([t EXCEPT !.db = SledBatch_apply(s.db, s.batch)], TRUE, None)

Sled_finish_batch(s, fail) ==
    LET t == [s EXCEPT !.batch_on = FALSE, !.batch = SledBatch_default]
    IN IF fail THEN R(t, FALSE, None)
       ELSE R([t EXCEPT !.db = SledBatch_apply(s.db, s.batch)], TRUE, None)

\* ---- Postgres ----
\* the batch is a HashMap<Vec<u8>, Vec<u8>>: key -> value, no delete entries
PgBatch_new == EmptyMap

PgBatch_is_empty(batch) == \A k \in Keys : batch[k] = None

\* INSERT .. VALUES (k, v), .. ON CONFLICT (key) DO UPDATE SET value = EXCLUDED.value
Pg_upsert(db, batch) ==
    [k \in Keys |-> IF batch[k] # None THEN batch[k] ELSE db[k]]

Postgres_new ==
    [db |-> EmptyMap, batch |-> PgBatch_new, cache |-> MemCache_new,
     batch_on |-> FALSE]

\* SELECT value .. WHERE key = $1; the row found is returned, not cached
Postgres_get(s, key, fail) ==
    IF MemCache_contains(s.cache, key)
    THEN R(s, TRUE, MemCache_get(s.cache, key))
    ELSE IF fail THEN R(s, FALSE, None)
    ELSE R(s, TRUE, s.db[key])

Postgres_put_keepfirst(s, key, value, fail) ==
    LET c == [s EXCEPT !.cache = MemCache_put(s.cache, key, value)]
    IN IF s.batch_on
       THEN R([c EXCEPT !.batch = IF s.batch[key] = None
                                  THEN [s.batch EXCEPT ![key] = value]
                                  ELSE s.batch], TRUE, None)
       ELSE IF fail THEN R(c, FALSE, None)
       ELSE R([c EXCEPT !.db = [s.db EXCEPT ![key] = value]], TRUE, None)

Postgres_put(s, key, value, fail) ==
    LET c == [s EXCEPT !.cache = MemCache_put(s.cache, key, value)]
    IN IF s.batch_on
       THEN R([c EXCEPT !.batch = [s.batch EXCEPT ![key] = value]], TRUE, None)
       ELSE IF fail THEN R(c, FALSE, None)
       ELSE R([c EXCEPT !.db = [s.db EXCEPT ![key] = value]], TRUE, None)

\* in batch mode HashMap::remove drops the pending put of key, if any
Postgres_delete(s, key, fail) ==
    LET c == [s EXCEPT !.cache = MemCache_delete(s.cache, key)]
    IN IF s.batch_on
       THEN R([c EXCEPT !.batch = [s.batch EXCEPT ![key] = None]], TRUE, None)
       ELSE IF fail THEN R(c, FALSE, None)
       ELSE R([c EXCEPT !.db = [s.db EXCEPT ![key] = None]], TRUE, None)

\* the HashMap of the batch not replaced
Postgres_init_batch_keepbatch(s) ==
    R([s EXCEPT !.cache = MemCache_clear(s.cache),
                !.batch_on = TRUE], TRUE, None)

Postgres_init_batch(s) ==
    R([s EXCEPT !.batch = PgBatch_new,
                !.cache = MemCache_clear(s.cache),
                !.batch_on = TRUE], TRUE, None)

\* without the is_empty test the statement built from no rows is malformed
Postgres_finish_batch_nocheck(s, fail) ==
    LET t == [s EXCEPT !.batch_on = FALSE, !.batch = PgBatch_new]
    IN IF fail \/ PgBatch_is_empty(s.batch) THEN R(t, FALSE, None)
       ELSE R([t EXCEPT !.db = Pg_upsert(s.db, s.batch)], TRUE, None)

Postgres_finish_batch(s, fail) ==
    LET off == [s EXCEPT !.batch_on = FALSE]
    IN IF ~PgBatch_is_empty(s.batch)
       THEN LET t == [off EXCEPT !.batch = PgBatch_new]
            IN IF fail THEN R(t, FALSE, None)
               ELSE R([t EXCEPT !.db = Pg_upsert(s.db, s.batch)], TRUE, None)
       ELSE R(off, TRUE, None)

\* ---- trait Database: the call dispatched to the adapter in use ----
Adapters == {"MemoryDB", "RocksDB", "Sled", "Postgres"}
Batching == {"RocksDB", "Sled", "Postgres"}

Database_new(a) ==
    CASE a = "MemoryDB" -> MemoryDB_new
      [] a = "RocksDB" -> RocksDB_new
      [] a = "Sled" -> Sled_new
      [] a = "Postgres" -> Postgres_new

Database_get(a, s, key, fail) ==
    CASE a = "MemoryDB" -> MemoryDB_get(s, key)
      [] a = "RocksDB" -> RocksDB_get(s, key, fail)
      [] a = "Sled" -> Sled_get(s, key, fail)
      [] a = "Postgres" -> Postgres_get(s, key, fail)

Database_put(a, s, key, value, fail) ==
    CASE a = "MemoryDB" -> MemoryDB_put(s, key, value)
      [] a = "RocksDB" -> RocksDB_put(s, key, value, fail)
      [] a = "Sled" -> Sled_put(s, key, value, fail)
      [] a = "Postgres" -> Postgres_put(s, key, value, fail)

Database_delete(a, s, key, fail) ==
    CASE a = "MemoryDB" -> MemoryDB_delete(s, key)
      [] a = "RocksDB" -> RocksDB_delete(s, key, fail)
      [] a = "Sled" -> Sled_delete(s, key, fail)
      [] a = "Postgres" -> Postgres_delete(s, key, fail)

Database_init_batch(a, s) ==
    CASE a = "MemoryDB" -> MemoryDB_init_batch(s)
      [] a = "RocksDB" -> RocksDB_init_batch(s)
      [] a = "Sled" -> Sled_init_batch(s)
      [] a = "Postgres" -> Postgres_init_batch(s)

Database_finish_batch(a, s, fail) ==
    CASE a = "MemoryDB" -> MemoryDB_finish_batch(s)
      [] a = "RocksDB" -> RocksDB_finish_batch(s, fail)
      [] a = "Sled" -> Sled_finish_batch(s, fail)
      [] a = "Postgres" -> Postgres_finish_batch(s, fail)

\* ---- state ----
VARIABLES
    adapter,    \* which adapter this run drives
    st,         \* the adapter's fields: db, and batch, cache, batch_on when batching
    faulty,     \* whether engine calls can fail in this run
    tracked,    \* whether this run follows the most recent write of every key
    ok,         \* the call just made returned Ok
    errored,    \* some call has returned an error
    phase,      \* caller's view: "idle", "open" after init_batch, "finished"
                \* right after the finish_batch of an open batch
    \* history followed on the batching adapters only; hb, fresh and snap only
    \* over engines that do not fail
    nested,     \* init_batch was once called with a batch open (tracked runs)
    last,       \* per key, the value of the most recent put, None after delete
                \* (tracked runs, while no batch was nested and no call failed)
    hb,         \* per key, the last put/delete of the open or just finished batch
    fresh,      \* keys not used in a call since the last init_batch
    snap,       \* the engine as of the init_batch of that batch
    peers,      \* the other batching adapters, given the same calls as st
                \* (lockstep runs; no adapter otherwise)
    mid         \* the put of a second thread that has made its cache record
                \* and not yet its write (threaded runs), and whether the
                \* last call since the record was init_batch

vars == <<adapter, st, faulty, tracked, ok, errored, phase,
          nested, last, hb, fresh, snap, peers, mid>>

IsBatching == adapter \in Batching

\* runs in which the writes of the batch are followed
Followed == IsBatching /\ ~faulty

Engine == st.db

\* the pending batch of adapter a in state s holds no record
BufferEmptyOf(a, s) ==
    CASE a = "RocksDB" -> s.batch = <<>>
      [] a = "Sled" -> s.batch = SledBatch_default
      [] a = "Postgres" -> PgBatch_is_empty(s.batch)
      [] OTHER -> TRUE

BufferEmpty == BufferEmptyOf(adapter, st)

\* the engine of adapter a in state s overlaid with its pending batch: what
\* the grouped write of finish_batch stores
Overlay(a, s) ==
    CASE a = "RocksDB" -> WriteBatch_apply(s.db, s.batch)
      [] a = "Sled" -> SledBatch_apply(s.db, s.batch)
      [] a = "Postgres" -> Pg_upsert(s.db, s.batch)
      [] OTHER -> s.db

\* the pending batch holds a put of k
BufferHasPut(k) ==
    CASE adapter = "RocksDB" -> \E i \in 1..Len(st.batch) :
                                    st.batch[i].key = k /\ st.batch[i].value # None
      [] adapter = "Sled" -> st.batch[k] \in Values
      [] adapter = "Postgres" -> st.batch[k] # None
      [] OTHER -> FALSE

\* k has no value in the cache, the buffer or the engine
NoValue(k) ==
    /\ Engine[k] = None
    /\ IsBatching => st.cache.map[k] = None /\ ~BufferHasPut(k)

\* room left in the modelled WriteBatch
BatchRoom == (adapter = "RocksDB" /\ st.batch_on) => Len(st.batch) < MaxBatch

FailChoices == IF faulty THEN BOOLEAN ELSE {FALSE}

NoBatchOps == [k \in Keys |-> NoWrite]

\* no put is between its two steps
NoPut == [key |-> None, value |-> None, wiped |-> FALSE]

InitCommon ==
    /\ adapter \in Adapters
    /\ mid = NoPut
    /\ st = Database_new(adapter)
    /\ ok = TRUE
    /\ errored = FALSE
    /\ phase = "idle"
    /\ nested = FALSE
    /\ last = EmptyMap
    /\ hb = NoBatchOps
    /\ fresh = {}
    /\ snap = EmptyMap

NoPeers == <<>>

Init == InitCommon /\ faulty = FALSE /\ tracked = FALSE /\ peers = NoPeers

InitTracked == InitCommon /\ faulty = FALSE /\ tracked = TRUE /\ peers = NoPeers

InitFaulty == InitCommon /\ faulty = TRUE /\ tracked = FALSE /\ peers = NoPeers

\* a RocksDB, a Sled and a Postgres adapter constructed over empty engines
InitLockstep ==
    /\ InitCommon /\ adapter = "RocksDB"
    /\ faulty = FALSE /\ tracked = FALSE
    /\ peers = [a \in Batching \ {"RocksDB"} |-> Database_new(a)]

\* the adapter after a call, and what the caller saw of it
Called(r) ==
    /\ st' = r.s
    /\ ok' = r.ok
    /\ errored' = (errored \/ ~r.ok)
    /\ UNCHANGED <<adapter, faulty, tracked, mid>>

\* the same call made on each of the other adapters, rs[a] its result on a
PeersAfter(rs) == peers' = [a \in DOMAIN peers |-> rs[a].s]

\* the most recent write per key, followed while the calls are well-formed
LastAfter(l) ==
    last' = IF ~tracked \/ ~IsBatching \/ nested' \/ errored' THEN EmptyMap ELSE l

\* the writes of the batch and the engine before it are kept until the call
\* after its finish_batch
BatchAfter(h) ==
    /\ hb' = IF Followed /\ phase = "open" THEN h ELSE NoBatchOps
    /\ snap' = IF ~Followed THEN EmptyMap
               ELSE IF phase = "open" THEN snap ELSE st'.db

FreshAfter(f) == fresh' = IF Followed THEN f ELSE {}

\* a call other than init_batch and finish_batch
PhaseAfter == phase' = IF phase = "open" THEN "open" ELSE "idle"

Get(key) ==
    \E fail \in FailChoices :
        /\ Called(Database_get(adapter, st, key, fail))
        /\ PeersAfter([a \in DOMAIN peers |-> Database_get(a, peers[a], key, fail)])
        /\ PhaseAfter
        /\ UNCHANGED nested
        /\ LastAfter(last)
        /\ BatchAfter(hb)
        /\ FreshAfter(fresh \ {key})

Put(key, value) ==
    /\ BatchRoom
    /\ \E fail \in FailChoices :
        /\ Called(Database_put(adapter, st, key, value, fail))
        /\ PeersAfter([a \in DOMAIN peers |->
                          Database_put(a, peers[a], key, value, fail)])
        /\ PhaseAfter
        /\ UNCHANGED nested
        /\ LastAfter([last EXCEPT ![key] = value])
        /\ BatchAfter([hb EXCEPT ![key] = value])
        /\ FreshAfter(fresh \ {key})

Delete(key) ==
    /\ BatchRoom
    /\ \E fail \in FailChoices :
        /\ Called(Database_delete(adapter, st, key, fail))
        /\ PeersAfter([a \in DOMAIN peers |-> Database_delete(a, peers[a], key, fail)])
        /\ PhaseAfter
        /\ UNCHANGED nested
        /\ LastAfter([last EXCEPT ![key] = None])
        /\ BatchAfter([hb EXCEPT ![key] = None])
        /\ FreshAfter(fresh \ {key})

InitBatch ==
    /\ Called(Database_init_batch(adapter, st))
    /\ PeersAfter([a \in DOMAIN peers |-> Database_init_batch(a, peers[a])])
    /\ phase' = "open"
    /\ nested' = (tracked /\ IsBatching /\ (nested \/ phase = "open"))
    /\ LastAfter(last)
    /\ hb' = NoBatchOps
    /\ snap' = IF Followed THEN st.db ELSE EmptyMap
    /\ FreshAfter(Keys)

FinishBatch ==
    \E fail \in FailChoices :
        /\ Called(Database_finish_batch(adapter, st, fail))
        /\ PeersAfter([a \in DOMAIN peers |->
                          Database_finish_batch(a, peers[a], fail)])
        /\ phase' = IF phase = "open" THEN "finished" ELSE "idle"
        /\ UNCHANGED <<nested, fresh>>
        /\ LastAfter(last)
        /\ BatchAfter(hb)

Next ==
    \/ \E key \in Keys : Get(key)
    \/ \E key \in Keys, value \in Values : Put(key, value)
    \/ \E key \in Keys : Delete(key)
    \/ InitBatch
    \/ FinishBatch

Spec == Init /\ [][Next]_vars

\* the same calls, the most recent write of every key followed
SpecTracked == InitTracked /\ [][Next]_vars

\* the same calls over engines that can fail
SpecFaulty == InitFaulty /\ [][Next]_vars

\* ---- two threads on one RocksDB adapter ----
\* One thread makes whole calls; the put of the other is the two steps of
\* lines 149 and 150-155, and the calls of the first can come between them.
\* The history of the batch is not followed in these runs.
ThreadStep(s) ==
    /\ adapter = "RocksDB"
    /\ st' = s
    /\ UNCHANGED <<adapter, faulty, tracked, ok, errored, phase,
                   nested, last, hb, fresh, snap, peers>>

\* a whole call made while a put may be between its steps
Between(wiped) == IF mid = NoPut THEN NoPut ELSE [mid EXCEPT !.wiped = wiped]

\* the put's first step: the record in the cache
PutRecord(key, value) ==
    /\ mid = NoPut
    /\ ThreadStep(RocksDB_put_cache_step(st, key, value))
    /\ mid' = [key |-> key, value |-> value, wiped |-> FALSE]

\* its second step: batch_on tested, the buffer or the engine written
PutWrite ==
    /\ mid # NoPut
    /\ BatchRoom
    /\ ThreadStep(RocksDB_put_write_step(st, mid.key, mid.value, FALSE).s)
    /\ mid' = NoPut

ThreadGet(key) ==
    /\ ThreadStep(RocksDB_get(st, key, FALSE).s)
    /\ mid' = Between(FALSE)

ThreadDelete(key) ==
    /\ BatchRoom
    /\ ThreadStep(RocksDB_delete(st, key, FALSE).s)
    /\ mid' = Between(FALSE)

ThreadInitBatch ==
    /\ ThreadStep(RocksDB_init_batch(st).s)
    /\ mid' = Between(TRUE)

ThreadFinishBatch ==
    /\ ThreadStep(RocksDB_finish_batch(st, FALSE).s)
    /\ mid' = Between(FALSE)

NextThreads ==
    \/ \E key \in Keys, value \in Values : PutRecord(key, value)
    \/ PutWrite
    \/ \E key \in Keys : ThreadGet(key)
    \/ \E key \in Keys : ThreadDelete(key)
    \/ ThreadInitBatch
    \/ ThreadFinishBatch

InitThreads == Init /\ adapter = "RocksDB"

SpecThreads == InitThreads /\ [][NextThreads]_vars

\* the same calls made on the three batching adapters side by side
SpecLockstep == InitLockstep /\ [][Next]_vars

TypeOK ==
    /\ Engine \in [Keys -> Values \cup {None}]
    /\ IsBatching => /\ st.batch_on \in BOOLEAN
                     /\ st.cache.set \subseteq Keys
                     /\ st.cache.map \in [Keys -> Values \cup {None}]
    /\ adapter = "RocksDB" => Len(st.batch) <= MaxBatch
    /\ phase \in {"idle", "open", "finished"}

\* the calls as the caller makes them: no engine failure injected
GetOf(s, key) == Database_get(adapter, s, key, FALSE)
PutOf(s, key, value) == Database_put(adapter, s, key, value, FALSE)
DeleteOf(s, key) == Database_delete(adapter, s, key, FALSE)
FinishOf(s) == Database_finish_batch(adapter, s, FALSE)
InitOf(s) == Database_init_batch(adapter, s)

\* ---- properties ----

\* C1: with one writer, no engine error and no init_batch inside an open
\* batch, every get(K) on a batching adapter returns the value of the most
\* recent put(K, V), and absent when the most recent write of K was a delete
\* or K was never written.
C1_SingleView ==
    (tracked /\ IsBatching /\ ~nested /\ ~errored)
        => \A k \in Keys : GetOf(st, k).ok /\ GetOf(st, k).val = last[k]

\* C2: on every adapter and in every reachable state, put(K, V) followed
\* immediately by get(K) returns V.
C2_ReadYourWrite ==
    \A k \in Keys, v \in Values :
        LET g == GetOf(PutOf(st, k, v).s, k) IN g.ok /\ g.val = v

\* a put inside an open batch, nothing committed: the get after it returns
\* the value, which the engine does not hold
C2_Witness ==
    /\ IsBatching /\ st.batch_on /\ Engine = EmptyMap /\ phase = "open"
    /\ \E k \in Keys : /\ hb[k] \in Values /\ BufferHasPut(k)
                       /\ GetOf(st, k).val = hb[k]
                       /\ GetOf(PutOf(st, k, hb[k]).s, k).val = hb[k]

\* C3: on every adapter, put(K, V) then delete(K) then get(K) returns absent,
\* also with a finish_batch between the delete and the get.
C3_Tombstone ==
    \A k \in Keys, v \in Values :
        LET d == DeleteOf(PutOf(st, k, v).s, k).s
            g == GetOf(d, k)
            h == GetOf(FinishOf(d).s, k)
        IN g.ok /\ g.val = None /\ h.ok /\ h.val = None

\* an open batch over an engine that holds K: after put and delete of K the
\* get answers absent, before and after finish_batch
C3_Witness ==
    /\ IsBatching /\ st.batch_on /\ phase = "open"
    /\ \E k \in Keys, v \in Values :
           /\ Engine[k] \in Values /\ Engine[k] # v /\ hb[k] = NoWrite
           /\ LET d == DeleteOf(PutOf(st, k, v).s, k).s
              IN /\ k \in d.cache.set
                 /\ GetOf(d, k).val = None
                 /\ GetOf(FinishOf(d).s, k).val = None

\* C4: on a batching adapter, as long as the batch is open the engine holds
\* what it held just before init_batch.
C4_BatchFrame ==
    (IsBatching /\ st.batch_on) => Engine = snap

\* a put inside the open batch that the engine does not show
C4_Witness ==
    /\ IsBatching /\ st.batch_on /\ ~BufferEmpty
    /\ \E k \in Keys : hb[k] \in Values /\ Engine[k] # hb[k] /\ Engine[k] = snap[k]

\* C5: after a successful finish_batch the engine holds, for every key whose
\* last write in that batch was a put, the value of that put.
\* Also when the batch, already holding a put or a delete of K, gets a
\* further put(K, V) before it is finished.
C5_LastWriteWins ==
    /\ (IsBatching /\ phase = "finished" /\ ok)
           => \A k \in Keys : hb[k] \in Values => Engine[k] = hb[k]
    /\ (IsBatching /\ st.batch_on)
           => \A k \in Keys, v \in Values :
                  LET f == FinishOf(PutOf(st, k, v).s) IN f.ok => f.s.db[k] = v

\* an open batch whose last write of K is a put of another value, over an
\* engine with a third content for K: a further put and finish_batch store
\* the value put last
C5_Witness ==
    /\ IsBatching /\ st.batch_on /\ phase = "open"
    /\ \E k \in Keys, v \in Values :
           /\ hb[k] \in Values /\ hb[k] # v /\ BufferHasPut(k) /\ Engine[k] # v
           /\ FinishOf(PutOf(st, k, v).s).s.db[k] = v

\* C6: on a batching adapter, when the engine held a value for K before
\* init_batch and the last write of K in the batch is delete(K), the engine
\* has no value for K after a successful finish_batch.
C6_DeleteMarker ==
    (IsBatching /\ phase = "finished" /\ ok)
        => \A k \in Keys : (snap[k] # None /\ hb[k] = None) => Engine[k] = None

\* C7: init_batch leaves the cache without entries, and the first get(K)
\* after it, with no put or delete of K in between, returns what the engine
\* holds for K.
C7_CacheReset ==
    IsBatching =>
        /\ fresh = Keys => st.cache = MemCache_new
        /\ \A k \in fresh : GetOf(st, k).ok /\ GetOf(st, k).val = Engine[k]

\* after init_batch, a key written earlier and not used since: get returns
\* the engine's value
C7_Witness ==
    /\ IsBatching /\ st.batch_on
    /\ \E k \in fresh : Engine[k] \in Values /\ GetOf(st, k).val = Engine[k]
    /\ \E k \in Keys : hb[k] # NoWrite

\* C8: on every adapter, delete(K) of a key without a value in cache, buffer
\* and engine succeeds, a following get(K) returns absent, and a following
\* finish_batch succeeds and leaves the engine without K.
C8_IdempotentDelete ==
    \A k \in Keys : NoValue(k) =>
        LET d == DeleteOf(st, k)
            g == GetOf(d.s, k)
            f == FinishOf(g.s)
        IN /\ d.ok
           /\ g.ok /\ g.val = None
           /\ f.ok /\ f.s.db[k] = None
           /\ FinishOf(d.s).ok /\ FinishOf(d.s).s.db[k] = None

\* Scenario D: a batch just opened on Postgres, a key never written
C8_Witness ==
    /\ adapter = "Postgres" /\ st.batch_on /\ BufferEmpty
    /\ \E k \in Keys : /\ NoValue(k)
                       /\ DeleteOf(st, k).ok
                       /\ GetOf(DeleteOf(st, k).s, k).val = None
                       /\ FinishOf(DeleteOf(st, k).s).ok

\* C9: finish_batch called with no batch open changes no key of the engine
\* and returns success.
C9_IdleFinishNoop ==
    [][(phase # "open" /\ FinishBatch) => (st'.db = st.db /\ ok')]_vars

\* Idle state after Idle puts, where finish_batch leaves the engine alone
C9_Witness ==
    /\ IsBatching /\ phase = "idle" /\ ~st.batch_on
    /\ \E k \in Keys : Engine[k] \in Values /\ st.cache.map[k] = Engine[k]
    /\ FinishOf(st).s.db = Engine

\* C10: batch_on starts false; only init_batch turns it on, only finish_batch
\* turns it off, get/put/delete leave it alone, and after finish_batch it is
\* false and the buffer is empty.
C10_Step ==
    IsBatching =>
        /\ (~st.batch_on /\ st'.batch_on) => InitBatch
        /\ (st.batch_on /\ ~st'.batch_on) => FinishBatch
        /\ FinishBatch => (~st'.batch_on /\ BufferEmptyOf(adapter, st'))

C10_Calls ==
    IsBatching =>
        \A k \in Keys :
            /\ GetOf(st, k).s.batch_on = st.batch_on
            /\ DeleteOf(st, k).s.batch_on = st.batch_on
            /\ \A v \in Values : PutOf(st, k, v).s.batch_on = st.batch_on

C10_BatchStateMachine ==
    (IsBatching => ~st.batch_on) /\ []C10_Calls /\ [][C10_Step]_vars

\* a batch with writes in its buffer has been finished
C10_Witness ==
    /\ IsBatching /\ phase = "finished"
    /\ hb # NoBatchOps /\ ~st.batch_on /\ BufferEmpty

\* C11: a finish_batch whose grouped engine write fails returns the error and
\* leaves batch_on false and the buffer empty, on RocksDB, Sled and Postgres;
\* a later finish_batch applies no write of the failed batch.
C11_FailedFinish ==
    IsBatching =>
        /\ (phase = "finished" /\ ~ok) => (~st.batch_on /\ BufferEmpty)
        /\ LET f == Database_finish_batch(adapter, st, TRUE)
               g == FinishOf(f.s)
           IN /\ ~BufferEmpty => ~f.ok
              /\ ~f.ok => /\ ~f.s.batch_on
                          /\ BufferEmptyOf(adapter, f.s)
                          /\ g.ok /\ g.s.db = f.s.db

\* the finish_batch of a RocksDB batch with writes has just failed
C11_Witness ==
    /\ adapter = "RocksDB" /\ phase = "finished" /\ ~ok
    /\ st.cache # MemCache_new
    /\ ~st.batch_on /\ BufferEmpty
    /\ FinishOf(st).s.db = Engine

\* C12: init_batch called while a batch is open drops every put/delete
\* buffered since the previous init_batch from the buffer and from the cache:
\* the following finish_batch leaves the engine as it is, and get(K) returns
\* the engine's value or absent.
C12_NestedDiscard ==
    (IsBatching /\ st.batch_on) =>
        LET i == InitOf(st)
            f == FinishOf(i.s)
        IN /\ i.ok /\ i.s.batch_on
           /\ BufferEmptyOf(adapter, i.s)
           /\ i.s.cache = MemCache_new
           /\ f.ok /\ f.s.db = Engine
           /\ \A k \in Keys : GetOf(i.s, k).ok /\ GetOf(i.s, k).val = Engine[k]

\* an open batch holding a put of K that the engine does not hold: get(K)
\* returns it before the second init_batch and the engine's content after
C12_Witness ==
    /\ IsBatching /\ st.batch_on /\ phase = "open" /\ ~BufferEmpty
    /\ \E k \in Keys :
           /\ hb[k] \in Values /\ BufferHasPut(k) /\ Engine[k] # hb[k]
           /\ GetOf(st, k).val = hb[k]
           /\ GetOf(InitOf(st).s, k).val = Engine[k]
           /\ FinishOf(InitOf(st).s).s.db[k] = Engine[k]

\* C13: for every sequence of get/put/delete/init_batch/finish_batch without
\* engine errors from the same initial engine, RocksDB, Sled and Postgres
\* return the same result for every get and hold the same engine contents,
\* the same cache contents and the same batch_on flag after every step.
C13_SameContract ==
    \A a \in DOMAIN peers :
        /\ peers[a].db = st.db
        /\ peers[a].cache = st.cache
        /\ peers[a].batch_on = st.batch_on
        /\ \A k \in Keys :
               Database_get(a, peers[a], k, FALSE).val = GetOf(st, k).val

\* C14: in every state reached by MemCache put/delete/clear, as the adapter
\* operations make them, no key is both in the value mapping and in the
\* tombstone set; put(K, V) leaves K in the mapping and not in the tombstones,
\* delete(K) leaves K in the tombstones and not in the mapping.
C14_Exclusive ==
    IsBatching =>
        /\ \A k \in Keys : ~(k \in st.cache.set /\ st.cache.map[k] # None)
        /\ \A k \in Keys, v \in Values :
               LET p == MemCache_put(st.cache, k, v)
                   q == PutOf(st, k, v).s.cache
               IN /\ p.map[k] = v /\ k \notin p.set
                  /\ q.map[k] = v /\ k \notin q.set
        /\ \A k \in Keys :
               LET d == MemCache_delete(st.cache, k)
                   e == DeleteOf(st, k).s.cache
               IN /\ d.map[k] = None /\ k \in d.set
                  /\ e.map[k] = None /\ k \in e.set

\* a cache with a tombstone for one key and a value for another: put on the
\* first and delete on the second move each key to the other side
C14_Witness ==
    /\ IsBatching
    /\ \E k, j \in Keys :
           /\ k \in st.cache.set /\ st.cache.map[j] \in Values
           /\ k \notin PutOf(st, k, st.cache.map[j]).s.cache.set
           /\ DeleteOf(st, j).s.cache.map[j] = None

\* C15: when K is neither a cached value nor a tombstone, get(K) queries the
\* engine; if the engine holds V for K, get returns V and the cache maps K to
\* V afterwards, on RocksDB, Sled and Postgres; if the engine has no value,
\* get returns absent and leaves the cache unchanged.
C15_MissFill ==
    IsBatching =>
        \A k \in Keys : ~MemCache_contains(st.cache, k) =>
            LET g == GetOf(st, k)
            IN /\ g.ok /\ g.val = Engine[k]
               /\ Engine[k] # None => g.s.cache.map[k] = Engine[k]
               /\ Engine[k] = None => g.s.cache = st.cache

\* C16: in every state reached without an engine error on a batching
\* adapter, for every key the cache contains, the cache's answer (the value,
\* or absent for a tombstone) equals the engine overlaid with the pending
\* batch buffer; in Idle state after a successful finish_batch every cached
\* value equals the engine's and every tombstoned key is absent from it.
C16_CacheCoherent ==
    IsBatching =>
        \A k \in Keys : MemCache_contains(st.cache, k) =>
            MemCache_get(st.cache, k) = Overlay(adapter, st)[k]

C18_GetFrame ==
    \A k \in Keys, fail \in BOOLEAN :
        LET g == Database_get(adapter, st, k, fail).s
        IN /\ g.db = Engine
           /\ IsBatching =>
                  /\ g.batch = st.batch
                  /\ g.batch_on = st.batch_on
                  /\ \A j \in Keys \ {k} :
                         /\ g.cache.map[j] = st.cache.map[j]
                         /\ (j \in g.cache.set) = (j \in st.cache.set)

\* an open batch with a write of one key buffered, and a get of another key
\* that the engine holds and the cache does not: the get fills the cache
C18_Witness ==
    /\ IsBatching /\ st.batch_on /\ ~BufferEmpty
    /\ \E k, j \in Keys :
           /\ j # k /\ MemCache_contains(st.cache, j)
           /\ ~MemCache_contains(st.cache, k) /\ Engine[k] \in Values
           /\ GetOf(st, k).s.cache.map[k] = Engine[k]
           /\ GetOf(st, k).s.cache # st.cache

\* C19: in every reachable state of a batching adapter batch_on = false
\* implies an empty buffer: put/delete in Idle state write the engine and not
\* the buffer, finish_batch always leaves the buffer empty, and a
\* finish_batch from Idle state carries no write into the engine.
C19_IdleBufferEmpty ==
    IsBatching =>
        /\ ~st.batch_on =>
               /\ BufferEmpty
               /\ \A k \in Keys :
                      /\ BufferEmptyOf(adapter, DeleteOf(st, k).s)
                      /\ \A v \in Values : BufferEmptyOf(adapter, PutOf(st, k, v).s)
               /\ FinishOf(st).s.db = Engine
        /\ BufferEmptyOf(adapter, FinishOf(st).s)

\* Idle state with engine contents written by Idle puts or a finished batch,
\* where a further put and delete reach the engine at once
C19_Witness ==
    /\ IsBatching /\ ~st.batch_on /\ BufferEmpty /\ Engine # EmptyMap
    /\ \E k \in Keys, v \in Values :
           /\ Engine[k] \in Values /\ Engine[k] # v
           /\ PutOf(st, k, v).s.db[k] = v
           /\ DeleteOf(st, k).s.db[k] = None

\* C20: a failed write does not roll back the cache: after a finish_batch
\* that fails on its grouped write, or an Idle put(K, V) / delete(K) that
\* fails on its engine write, the cache keeps the entry recorded for K and
\* get(K) returns the cached answer although the engine does not hold it;
\* after the next init_batch get(K) returns the engine's value.
C20_NoRollback ==
    IsBatching =>
        /\ ~st.batch_on =>
               \A k \in Keys :
                   /\ \A v \in Values :
                          LET p == Database_put(adapter, st, k, v, TRUE)
                          IN /\ ~p.ok /\ p.s.db = Engine
                             /\ p.s.cache.map[k] = v
                             /\ GetOf(p.s, k).ok /\ GetOf(p.s, k).val = v
                             /\ GetOf(InitOf(p.s).s, k).val = Engine[k]
                   /\ LET d == Database_delete(adapter, st, k, TRUE)
                      IN /\ ~d.ok /\ d.s.db = Engine
                         /\ k \in d.s.cache.set
                         /\ GetOf(d.s, k).ok /\ GetOf(d.s, k).val = None
                         /\ GetOf(InitOf(d.s).s, k).val = Engine[k]
        /\ LET f == Database_finish_batch(adapter, st, TRUE)
           IN ~f.ok =>
                  /\ f.s.db = Engine /\ f.s.cache = st.cache
                  /\ \A k \in Keys :
                         /\ MemCache_contains(st.cache, k) =>
                                /\ GetOf(f.s, k).ok
                                /\ GetOf(f.s, k).val = MemCache_get(st.cache, k)
                         /\ GetOf(InitOf(f.s).s, k).val = Engine[k]

\* a write has just failed: in Idle state the cache holds a value for K that
\* the engine does not hold, get(K) returns it, and after init_batch get(K)
\* returns what the engine holds
C20_Witness ==
    /\ IsBatching /\ ~ok /\ ~st.batch_on
    /\ \E k \in Keys :
           /\ st.cache.map[k] \in Values /\ Engine[k] # st.cache.map[k]
           /\ GetOf(st, k).val = st.cache.map[k]
           /\ GetOf(InitOf(st).s, k).val = Engine[k]
====
